---- MODULE Spec2Model ----
(***************************************************************************)
(* A model of TOBIAS BINDetect_functions.py: the parallel scan_and_score   *)
(* workers (Spec), the per-motif statistics task process_tfbs (SpecStats)  *)
(* and the comparison of one fitted log2fc sample to the background fit    *)
(* (SpecCmp).                                                              *)
(*                                                                         *)
(* Signal scores are integers in units of 1e-6, so that the 5-decimal      *)
(* formatting and rounding of the code are real operations.                *)
(***************************************************************************)
EXTENDS Integers, Sequences, FiniteSets, TLC

VARIABLES
    regions,            \* the input regions, in file order
    chunk,              \* chunk[w]: the indices (into regions) given to worker w
    unreadable,         \* the <<condition, region index>> pairs whose track read fails
    pc,                 \* pc[w]: "scan", "send", "return", "done" or "crashed"
    ri,                 \* ri[w]: how many regions of its chunk worker w has processed
    si,                 \* si[w]: how many motif names worker w has sent
    rng,                \* rng[w]: state of the worker's random module
    background_signal,  \* background_signal[w]: [gc, signal[condition]]
    all_TFBS,           \* all_TFBS[w][name]: sites saved before writing
    qs,                 \* qs[name]: the messages put on the motif's queue
    log,                \* log[w]: the logger.error calls of worker w
    crash,              \* crash[w]: the exception that ended worker w, or NoCrash
    trace,              \* trace[w]: per processed region, what the worker did (history)
    removed,            \* removed[w]: the sites resolve_overlaps dropped (history)
    stats,              \* the state of the statistics stage (SpecStats)
    cmp                 \* the state of one comparison (SpecCmp)

scanvars == <<regions, chunk, unreadable, pc, ri, si, rng, background_signal,
              all_TFBS, qs, log, crash, trace, removed>>
vars == <<regions, chunk, unreadable, pc, ri, si, rng, background_signal,
          all_TFBS, qs, log, crash, trace, removed, stats, cmp>>

-----------------------------------------------------------------------------
(* Bounds of the model *)

MaxRegions == 2
ChromLen == 2000
MaxBatch == 2

(* Constants of the program *)

gc_window == 500
rand_window == 500
extend == (gc_window + 1) \div 2

Workers == {"w1", "w2"}
cond_names == <<"WT", "KO">>
Conds == {cond_names[i] : i \in 1..Len(cond_names)}
names == <<"M1", "M2">>
Names == {names[i] : i \in 1..Len(names)}

\* not-a-number: a value apart from every score and every GC count (both >= 0)
NaN == 0 - 1
NoCrash == [reg |-> 0, err |-> "none"]
Idle == [phase |-> "idle"]

\* a sequence given as a function, as the tuple of its values
Tuple(f) == f \o <<>>

\* the element of a singleton
The(S) == CHOOSE x \in S : TRUE

Min(a, b) == IF a < b THEN a ELSE b
Max(a, b) == IF a > b THEN a ELSE b

-----------------------------------------------------------------------------
(* The inputs: regions, genome, signal tracks, motif sites *)

Region(s, e) == [chrom |-> "chr1", start |-> s, end |-> e]

RegionPool ==
    { Region(300, 900), Region(600, 1200), Region(100, 700),
      Region(1400, 1900), Region(500, 500), Region(800, 1000),
      Region(300, 1400), Region(1000, 1400) }

\* The genome: the base at each position of chr1.
Base(g) ==
    IF g % 7 = 0 THEN "N"
    ELSE IF g % 3 = 0 THEN "G"
    ELSE IF g % 3 = 1 THEN "A"
    ELSE IF g % 2 = 0 THEN "C" ELSE "T"

\* The signal track of a condition at a position: a score or not-a-number.
RawSignal(cond, g) ==
    LET k == IF cond = "WT" THEN g % 5 ELSE (g + 2) % 5
    IN  CASE k = 0 -> NaN
          [] k = 1 -> 0
          [] k = 2 -> 250004
          [] k = 3 -> 300004
          [] OTHER -> 500015

\* The places of the genome where a motif matches.
Sites ==
    << [name |-> "M1", start |-> 650,  end |-> 660,  score |-> 9, strand |-> "+"],
       [name |-> "M1", start |-> 655,  end |-> 665,  score |-> 7, strand |-> "-"],
       [name |-> "M2", start |-> 820,  end |-> 832,  score |-> 5, strand |-> "+"],
       [name |-> "M1", start |-> 1500, end |-> 1510, score |-> 6, strand |-> "+"],
       [name |-> "M1", start |-> 1800, end |-> 1810, score |-> 8, strand |-> "+"],
       [name |-> "M2", start |-> 350,  end |-> 362,  score |-> 5, strand |-> "-"] >>

-----------------------------------------------------------------------------
(* Helpers of tobias.utils and of the libraries, as scan_and_score uses them *)

\* OneRegion.get_length
get_length(region) == region.end - region.start

\* OneRegion.extend_reg: symmetric growth, clamped to non-negative coordinates
extend_reg(region, by) ==
    [region EXCEPT !.start = Max(0, region.start - by), !.end = region.end + by]

\* OneRegion.check_boundary(boundaries, action="cut"): truncate to the chromosome
check_boundary(region, chromlen) ==
    [region EXCEPT !.start = Max(0, region.start), !.end = Min(chromlen, region.end)]

\* random.seed(a): the generator state is a function of the seed alone
random_seed(a) == (a + 8) % 16

\* one step of the generator
RngNext(s) == (s * 5 + 3) % 16

\* random.sample(range(n), k) for k <= n: draw until k distinct positions are selected
RECURSIVE SampleLoop(_, _, _, _)
SampleLoop(s, n, k, acc) ==
    IF Len(acc) = k THEN [pos |-> acc, rng |-> s]
    ELSE LET s2 == RngNext(s)
             j == (s2 * n) \div 16
         IN  IF \E i \in 1..Len(acc) : acc[i] = j
             THEN SampleLoop(s2, n, k, acc)
             ELSE SampleLoop(s2, n, k, Append(acc, j))

\* np.nan_to_num
nan_to_num(v) == IF v = NaN THEN 0 ELSE v

\* "{0:.5f}".format(v) and round(5): the nearest multiple of 1e-5, ties to even
Round5(v) ==
    LET q == v \div 10
        r == v % 10
    IN  IF r < 5 THEN q * 10
        ELSE IF r > 5 THEN (q + 1) * 10
        ELSE IF q % 2 = 0 THEN q * 10 ELSE (q + 1) * 10

\* nuc_to_num
nuc_to_num(b) ==
    CASE b = "A" -> 0 [] b = "T" -> 1 [] b = "C" -> 2 [] b = "G" -> 3 [] OTHER -> 4

\* lines 126-129: boolean is an integer array, so the 0.5 stored for N becomes 0
GcBool(b) ==
    LET n == nuc_to_num(b)
    IN  IF n = 4 THEN 0 ELSE IF n > 1 THEN 1 ELSE 0

\* fast_rolling_math(boolean, gc_window, "mean") at index i of the array fetched from
\* [es, es + L): the number of G/C bases in the window (the mean times gc_window), or
\* not-a-number where the window does not fit. GcCount[lo] is the count of the window
\* that starts at position lo of the chromosome.
GcCount ==
    [lo \in 0..(ChromLen - gc_window) |->
        Cardinality({g \in lo..(lo + gc_window - 1) : GcBool(Base(g)) = 1})]

fast_rolling_math(es, L, i) ==
    LET lf == gc_window \div 2
        rf == gc_window - lf
    IN  IF i - lf < 0 \/ i + rf > L THEN NaN
        ELSE GcCount[es + i - lf]

\* x[extend:-extend] of an array x of length L: first index kept, and how many are kept
SliceLo(L) == Min(extend, L)
SliceLen(L) == Max(Max(L - extend, 0) - Min(extend, L), 0)

\* pybw[condition].values(...) with nan_to_num, at index i of the region
FootprintAt(cond, region, i) == nan_to_num(RawSignal(cond, region.start + i))

\* MotifList.scan_sequence(seq, region): the matches lying in the sequence passed
\* (the genome from gs, len long), with coordinates region.start + offset in seq
scan_sequence(gs, len, region, r) ==
    LET hit(i) == Sites[i].start >= gs /\ Sites[i].end <= gs + len
        idx == SelectSeq([i \in 1..Len(Sites) |-> i], hit)
    IN  Tuple([j \in 1..Len(idx) |->
            [chrom  |-> region.chrom,
             start  |-> region.start + (Sites[idx[j]].start - gs),
             end    |-> region.start + (Sites[idx[j]].end - gs),
             name   |-> Sites[idx[j]].name,
             score  |-> Sites[idx[j]].score,
             strand |-> Sites[idx[j]].strand,
             id     |-> <<r, idx[j]>>]])

\* OneRegion.overlaps: half-open interval intersection on one chromosome
Overlaps(a, b) == a.chrom = b.chrom /\ a.start < b.end /\ b.start < a.end

\* DataFrame.sort_values by the keys (key[i] the pair of keys of rows[i]): the row at
\* place p of the result is the one with p - 1 rows before it, rows with equal keys
\* staying in their order
sort_values(rows, keys) ==
    LET n == Len(rows)
        before(key, j, i) ==
            \/ key[j][1] < key[i][1]
            \/ key[j][1] = key[i][1] /\ key[j][2] < key[i][2]
            \/ key[j] = key[i] /\ j < i
        ranks(key) == Tuple([i \in 1..n |->
                                Cardinality({j \in 1..n : before(key, j, i)}) + 1])
    IN  The({ The({ Tuple([p \in 1..n |-> rows[CHOOSE i \in 1..n : rank[i] = p]]) :
                    rank \in {ranks(key)} }) :
              key \in {keys} })

\* RegionList.loc_sort: by (chrom, start, end); one chromosome here
loc_sort(s) == sort_values(s, Tuple([i \in 1..Len(s) |-> <<s[i].start, s[i].end>>]))

\* RegionList.resolve_overlaps: sort by coordinate and sweep, keeping of two overlapping
\* sites the one with the higher score, the earlier one on a tie
RECURSIVE Sweep(_, _)
Sweep(kept, rest) ==
    IF rest = <<>> THEN kept
    ELSE LET x == Head(rest)
         IN  IF kept # <<>> /\ Overlaps(kept[Len(kept)], x)
             THEN IF x.score > kept[Len(kept)].score
                  THEN Sweep(Append(SubSeq(kept, 1, Len(kept) - 1), x), Tail(rest))
                  ELSE Sweep(kept, Tail(rest))
             ELSE Sweep(Append(kept, x), Tail(rest))

resolve_overlaps(s) == Sweep(<<>>, loc_sort(s))


SeqToSet(s) == {s[i] : i \in 1..Len(s)}

-----------------------------------------------------------------------------
(* scan_and_score: one worker per chunk of regions *)

RegionLists ==
    UNION { {f \in [1..n -> RegionPool] : \A i, j \in 1..n : i # j => f[i] # f[j]}
            : n \in 1..MaxRegions }

\* the contiguous split of the regions over the two workers
Chunks(n, k) ==
    [w \in Workers |-> IF w = "w1" THEN [i \in 1..k |-> i]
                                   ELSE [i \in 1..(n - k) |-> k + i]]

InitScan ==
    /\ regions \in RegionLists
    /\ \E k \in 0..Len(regions) : chunk = Chunks(Len(regions), k)
    /\ unreadable \in {{}} \cup {{<<c, r>>} : c \in Conds, r \in 1..Len(regions)}
    /\ pc = [w \in Workers |-> "scan"]
    /\ ri = [w \in Workers |-> 0]
    /\ si = [w \in Workers |-> 0]
    /\ rng = [w \in Workers |-> 0]
    /\ background_signal =
           [w \in Workers |-> [gc |-> <<>>, signal |-> [c \in Conds |-> <<>>]]]
    /\ all_TFBS = [w \in Workers |-> [n \in Names |-> <<>>]]
    /\ qs = [n \in Names |-> <<>>]
    /\ log = [w \in Workers |-> <<>>]
    /\ crash = [w \in Workers |-> NoCrash]
    /\ trace = [w \in Workers |-> <<>>]
    /\ removed = [w \in Workers |-> {}]

\* SampleSeed without line 100: the generator goes on from the state it is in
SampleSeed_NoSeed(rngstate, reglen) == rngstate

\* line 100: the seed of the sampling of a region
SampleSeed(rngstate, reglen) == random_seed(reglen)

\* line 101: how many positions are sampled
SampleSize(reglen) == Max(1, reglen \div rand_window)

\* lines 119-120: the region the sequence is fetched from
ExtendedRegion(region) == check_boundary(extend_reg(region, extend), ChromLen)

\* lines 106-112: the conditions whose track read fails for region r
FailedReads(r) == {c \in Conds : <<c, r>> \in unreadable}

\* lines 110-112: one logger.error per failed read, in the order of cond_names
ReadErrors(r) ==
    LET failed(i) == cond_names[i] \in FailedReads(r)
        idx == SelectSeq([i \in 1..Len(cond_names) |-> i], failed)
    IN  [j \in 1..Len(idx) |-> [reg |-> r, cond |-> cond_names[idx[j]]]]

\* lines 106-116: the background signal after the footprints of the region are read
SampleSignal(bg, region, r, rand_positions) ==
    [c \in Conds |->
        IF c \in FailedReads(r) THEN bg.signal[c]
        ELSE bg.signal[c] \o
             [j \in 1..Len(rand_positions) |-> FootprintAt(c, region, rand_positions[j])]]

\* lines 138-148: a site with the columns of its region, the GC content and the scores
\* at its middle (pos is an index of gc and of footprints)
Annotate(TFBS, region, ext) ==
    LET L == ext.end - ext.start
        motif_length == TFBS.end - TFBS.start
        pos == TFBS.start - region.start + (motif_length \div 2)
    IN  [chrom |-> TFBS.chrom, start |-> TFBS.start, end |-> TFBS.end,
         name |-> TFBS.name, score |-> TFBS.score, strand |-> TFBS.strand,
         peak_chr |-> region.chrom, peak_start |-> region.start,
         peak_end |-> region.end,
         gc |-> fast_rolling_math(ext.start, L, SliceLo(L) + pos),
         sig |-> [c \in Conds |-> Round5(FootprintAt(c, region, pos))],
         id |-> TFBS.id]

\* SplitToTFs appending every site to the list of every motif
SplitToTFs_AllLists(saved, sites) == [n \in Names |-> saved[n] \o sites]

\* lines 150-152: the sites of the region split to the lists of their motifs
SplitToTFs(saved, sites) ==
    [n \in Names |->
        saved[n] \o SelectSeq(sites, LAMBDA t : t.name = n)]

Raise(w, r, err) ==
    /\ pc' = [pc EXCEPT ![w] = "crashed"]
    /\ crash' = [crash EXCEPT ![w] = [reg |-> r, err |-> err]]

\* lines 93-152: the body of the loop over the regions of the chunk
ScanRegion(w) ==
    /\ pc[w] = "scan"
    /\ ri[w] < Len(chunk[w])
    /\ LET r == chunk[w][ri[w] + 1]
           region == regions[r]
           reglen == get_length(region)
           k == SampleSize(reglen)
           seeded == SampleSeed(rng[w], reglen)
           smp == SampleLoop(seeded, reglen, k, <<>>)
           rand_positions == smp.pos
           ext == ExtendedRegion(region)
           L == ext.end - ext.start
           glen == SliceLen(L)
           gs == ext.start + SliceLo(L)
           sampled == [background_signal[w] EXCEPT
                          !.signal = SampleSignal(background_signal[w], region, r,
                                                  rand_positions)]
           region_TFBS == scan_sequence(gs, glen, region, r)
           sites == Tuple([j \in 1..Len(region_TFBS) |->
                        Annotate(region_TFBS[j], region, ext)])
       IN  IF k > reglen
           THEN \* random.sample: ValueError, sample larger than population
                /\ Raise(w, r, "ValueError")
                /\ rng' = [rng EXCEPT ![w] = seeded]
                /\ UNCHANGED <<ri, background_signal, all_TFBS, log, trace>>
           ELSE IF \E j \in 1..Len(rand_positions) : rand_positions[j] >= glen
           THEN \* line 132: gc[pos], IndexError
                /\ Raise(w, r, "IndexError")
                /\ rng' = [rng EXCEPT ![w] = smp.rng]
                /\ log' = [log EXCEPT ![w] = log[w] \o ReadErrors(r)]
                /\ background_signal' = [background_signal EXCEPT ![w] = sampled]
                /\ UNCHANGED <<ri, all_TFBS, trace>>
           ELSE LET bg == [sampled EXCEPT
                              !.gc = sampled.gc \o
                                  [j \in 1..Len(rand_positions) |->
                                      fast_rolling_math(ext.start, L,
                                          SliceLo(L) + rand_positions[j])]]
                IN  /\ rng' = [rng EXCEPT ![w] = smp.rng]
                    /\ log' = [log EXCEPT ![w] = log[w] \o ReadErrors(r)]
                    /\ background_signal' = [background_signal EXCEPT ![w] = bg]
                    /\ IF region_TFBS # <<>> /\ FailedReads(r) # {}
                       THEN \* line 147: footprints[bigwig], KeyError
                            /\ Raise(w, r, "KeyError")
                            /\ UNCHANGED <<ri, all_TFBS, trace>>
                       ELSE /\ all_TFBS' = [all_TFBS EXCEPT
                                               ![w] = SplitToTFs(all_TFBS[w], sites)]
                            /\ ri' = [ri EXCEPT ![w] = ri[w] + 1]
                            /\ pc' = [pc EXCEPT ![w] =
                                         IF ri[w] + 1 = Len(chunk[w]) THEN "send"
                                         ELSE "scan"]
                            /\ trace' = [trace EXCEPT ![w] = Append(trace[w],
                                            [reg |-> r,
                                             rand_positions |-> rand_positions,
                                             seq |-> [start |-> gs, end |-> gs + glen],
                                             gc_base |-> gs, gc_len |-> glen,
                                             found |-> {region_TFBS[j].id : j \in 1..Len(region_TFBS)}])]
                            /\ UNCHANGED crash
    /\ UNCHANGED <<regions, chunk, unreadable, si, qs, removed, stats, cmp>>

\* line 93 with no region left: the loop over an empty chunk
ScanNothing(w) ==
    /\ pc[w] = "scan"
    /\ Len(chunk[w]) = 0
    /\ pc' = [pc EXCEPT ![w] = "send"]
    /\ UNCHANGED <<regions, chunk, unreadable, ri, si, rng, background_signal,
                   all_TFBS, qs, log, crash, trace, removed, stats, cmp>>

\* SitesToSend resolving also against the sites already on the queue of the motif
SitesToSend_AcrossWorkers(w, name) ==
    LET queued == UNION {SeqToSet(qs[name][i].bed) : i \in 1..Len(qs[name])}
    IN  SelectSeq(resolve_overlaps(all_TFBS[w][name]),
                  LAMBDA t : \A q \in queued : ~Overlaps(q, t))

\* line 159: the sites of one motif that the worker sends
SitesToSend(w, name) == resolve_overlaps(all_TFBS[w][name])

\* line 163: RegionList.as_bed, one line per site
as_bed(sites) == sites

\* lines 158-167: one turn of the loop that sends the sites of a motif to its queue
SendSites(w) ==
    /\ pc[w] = "send"
    /\ si[w] < Len(names)
    /\ LET name == names[si[w] + 1]
           resolved == SitesToSend(w, name)
       IN  /\ qs' = [qs EXCEPT ![name] =
                        Append(qs[name], [name |-> name, bed |-> as_bed(resolved),
                                          from |-> w])]
           /\ removed' = [removed EXCEPT ![w] =
                             removed[w] \cup
                             (SeqToSet(all_TFBS[w][name]) \ SeqToSet(resolved))]
           /\ all_TFBS' = [all_TFBS EXCEPT ![w][name] = <<>>]
           /\ si' = [si EXCEPT ![w] = si[w] + 1]
           /\ pc' = [pc EXCEPT ![w] =
                        IF si[w] + 1 = Len(names) THEN "return" ELSE "send"]
    /\ UNCHANGED <<regions, chunk, unreadable, ri, rng, background_signal, log,
                   crash, trace, stats, cmp>>

\* lines 169-179: close the files and return the background signal
Return(w) ==
    /\ pc[w] = "return"
    /\ pc' = [pc EXCEPT ![w] = "done"]
    /\ UNCHANGED <<regions, chunk, unreadable, ri, si, rng, background_signal,
                   all_TFBS, qs, log, crash, trace, removed, stats, cmp>>

Init == InitScan /\ stats = Idle /\ cmp = Idle

Next == \E w \in Workers : ScanRegion(w) \/ ScanNothing(w) \/ SendSites(w) \/ Return(w)

Spec == Init /\ [][Next]_vars

-----------------------------------------------------------------------------
(* process_tfbs: one statistics task per motif.                               *)
(* Scores are in units of 1e-6; log2 fold changes, their means and standard   *)
(* deviations and the effect size are in units of 1e-5.                       *)

SampleCap == 50000

comparisons == << <<"WT", "KO">>, <<"KO", "WT">> >>
Comparisons == {comparisons[i] : i \in 1..Len(comparisons)}
\* args.thresholds, args.pseudo and log2fc_params: inputs of the task
args == [thresholds |-> [c \in Conds |-> IF c = "WT" THEN 750000 ELSE 250000],
         pseudo |-> 250000]
log2fc_params == [c \in Comparisons |-> [mean |-> 0, std |-> 100000]]

\* the integer nearest to num / den (den > 0), ties to the even one
RoundHalfEven(num, den) ==
    LET q == num \div den
        r == num - q * den
    IN  IF 2 * r < den THEN q
        ELSE IF 2 * r > den THEN q + 1
        ELSE IF q % 2 = 0 THEN q ELSE q + 1

\* num / den (den > 0) to 5 decimals, ties to even, by long division
RECURSIVE Digits(_, _, _, _)
Digits(q, r, den, n) ==
    IF n = 0 THEN q + RoundHalfEven(r, den)
    ELSE Digits(10 * q + (10 * r) \div den, (10 * r) % den, den, n - 1)

Quotient5(num, den) == Digits(num \div den, num % den, den, 5)

\* the infinities and the not-a-number of floating point division
PosInf == 2 * 1000000000
NegInf == 0 - PosInf

RECURSIVE Sum(_)
Sum(s) == IF s = <<>> THEN 0 ELSE Head(s) + Sum(Tail(s))

\* the integer square root of n < 46340 ^ 2, by bisection
RECURSIVE Bisect(_, _, _)
Bisect(n, lo, hi) ==
    IF hi - lo <= 1 THEN lo
    ELSE LET mid == (lo + hi) \div 2
         IN  IF mid * mid <= n THEN Bisect(n, mid, hi) ELSE Bisect(n, lo, mid)

Isqrt(n) == The({Bisect(x, 0, 46340) : x \in {n}})

\* np.log2(np.true_divide(a, b)) in units of 1e-5: exact when a / b is a power of two
\* (as for the scores of TmpRows), interpolated between powers of two otherwise
RECURSIVE Log2Ratio(_, _)
Log2Ratio(a, b) ==
    IF a < b THEN 0 - Log2Ratio(b, a)
    ELSE IF a >= 2 * b THEN 100000 + Log2Ratio(a, 2 * b)
    ELSE (((a - b) * 100) \div b) * 1000

\* scipy.stats.norm.fit: the mean and the standard deviation of the sample (the
\* deviation to 3 decimals); not-a-number for an empty sample
NanParams == [mean |-> PosInf + 1, std |-> PosInf + 1]
norm_fit(values) ==
    IF values = <<>> THEN NanParams
    ELSE LET n == Len(values)
             m == RoundHalfEven(Sum(values), n)
             sq == Tuple([i \in 1..n |-> ((values[i] - m) \div 100) * ((values[i] - m) \div 100)])
         IN  [mean |-> m, std |-> 100 * Isqrt(Sum(sq) \div n)]

\* ObsNo without the cap of line 284
ObsNo_NoCap(n) == n

\* line 284: np.min([len(observed_log2fcs), 50000])
ObsNo(n) == Min(n, SampleCap)

\* lines 278-298: the change and the p-value of one comparison, from the fit of the
\* observed log2fcs, their number and the fit of the background
CompareToBackground(n, obs_params, bg_params) ==
    LET obs_mean == obs_params.mean
        obs_std == obs_params.std
        bg_mean == bg_params.mean
        bg_std == bg_params.std
        obs_no == ObsNo(n)
        isnan == obs_params = NanParams
    IN  IF isnan \/ obs_mean # bg_mean
        THEN [change |->
                 IF isnan THEN NanParams.mean
                 ELSE IF obs_std + bg_std = 0
                      THEN (IF obs_mean > bg_mean THEN PosInf ELSE NegInf)
                      ELSE Quotient5(2 * (obs_mean - bg_mean), obs_std + bg_std),
              pvalue |-> [kind |-> "ttest_ind_from_stats",
                          mean1 |-> obs_mean, std1 |-> obs_std, nobs1 |-> obs_no,
                          mean2 |-> bg_mean, std2 |-> bg_std, nobs2 |-> obs_no]]
        ELSE [change |-> 0, pvalue |-> [kind |-> "exact", value |-> 1]]

\* a line of the temp file: the site, the columns of its peak, GC, a score per condition
TmpRow(name, start, end, score, pstart, pend, wt, ko) ==
    <<"chr1", start, end, name, score, "+", "chr1", pstart, pend, 210, wt, ko>>

\* the sites of motif M1 the scan workers may have found, and the file of M2
TmpSites ==
    << TmpRow("M1", 100, 110, 9, 0, 600, 1750000, 250000),
       TmpRow("M1", 105, 115, 7, 100, 700, 750000, 250000),
       TmpRow("M1", 300, 310, 5, 200, 800, 0, 0),
       TmpRow("M1", 50, 60, 6, 0, 600, 250000, 750000) >>

TmpM2 ==
    << TmpRow("M2", 400, 412, 5, 200, 800, 750010, 0),
       TmpRow("M2", 20, 32, 5, 0, 600, 250000, 250000) >>

AsSite(row) == [chrom |-> row[1], start |-> row[2], end |-> row[3], score |-> row[5],
                row |-> row]

\* the batches one scan worker can put on the queue of M1: the sites it found,
\* resolved (line 159) and written as lines (line 163)
Batches ==
    { LET found == SelectSeq(TmpSites, LAMBDA row : row \in S)
          kept == resolve_overlaps(Tuple([i \in 1..Len(found) |-> AsSite(found[i])]))
      IN  Tuple([i \in 1..Len(kept) |-> kept[i].row])
      : S \in {T \in SUBSET SeqToSet(TmpSites) : Cardinality(T) <= MaxBatch} }

\* the regions (peaks) of the sites of a batch
PeaksOf(batch) == {<<batch[i][7], batch[i][8], batch[i][9]>> : i \in 1..Len(batch)}

\* the temp file of M1: the batches of the two scan workers, appended; a region is
\* scanned by one worker
TmpFiles ==
    {b1 \o b2 : <<b1, b2>> \in {p \in Batches \X Batches :
                                   PeaksOf(p[1]) \cap PeaksOf(p[2]) = {}}}

IndexOf(header, col) ==
    IF \E i \in 1..Len(header) : header[i] = col
    THEN CHOOSE i \in 1..Len(header) : header[i] = col
    ELSE 0

\* lines 211-222: the names of the columns of the table read
Header(no_cols, peak_header_list) ==
    LET no_cond == Len(cond_names)
        tfbs == <<"TFBS_chr", "TFBS_start", "TFBS_end", "TFBS_name", "TFBS_score",
                  "TFBS_strand">>
        peak == IF peak_header_list # <<>> THEN peak_header_list
                ELSE <<"peak_chr", "peak_start", "peak_end">>
        h1 == [i \in 1..no_cols |->
                  IF i <= 6 THEN tfbs[i]
                  ELSE IF i - 6 <= Len(peak) THEN peak[i - 6]
                  ELSE IF peak_header_list = <<>>
                       THEN "additional_" \o ToString(i - 6 - Len(peak)) ELSE ""]
    IN  Tuple([i \in 1..no_cols |->
            IF i > no_cols - no_cond
            THEN cond_names[i - (no_cols - no_cond)] \o "_score"
            ELSE IF i = no_cols - no_cond THEN "GC"
            ELSE h1[i]])

\* IsBound with a score equal to the threshold counted as bound
IsBound_OrEqual(score, threshold) == score >= threshold

\* line 238: np.where(score > threshold, 1, 0)
IsBound(score, threshold) == score > threshold

\* the scan stage at rest, for the specifications of the statistics stage
ScanIdle ==
    /\ regions = <<>>
    /\ chunk = [w \in Workers |-> <<>>]
    /\ unreadable = {}
    /\ pc = [w \in Workers |-> "done"]
    /\ ri = [w \in Workers |-> 0]
    /\ si = [w \in Workers |-> 0]
    /\ rng = [w \in Workers |-> 0]
    /\ background_signal =
           [w \in Workers |-> [gc |-> <<>>, signal |-> [c \in Conds |-> <<>>]]]
    /\ all_TFBS = [w \in Workers |-> [n \in Names |-> <<>>]]
    /\ qs = [n \in Names |-> <<>>]
    /\ log = [w \in Workers |-> <<>>]
    /\ crash = [w \in Workers |-> NoCrash]
    /\ trace = [w \in Workers |-> <<>>]
    /\ removed = [w \in Workers |-> {}]

Col(header, row, col) == row[IndexOf(header, col)]

\* DataFrame.to_csv(columns=cols): the lines written, one value per chosen column
to_csv(header, rows, cols) ==
    [written |-> TRUE,
     header |-> cols,
     rows |-> Tuple([i \in 1..Len(rows) |->
                  Tuple([j \in 1..Len(cols) |-> Col(header, rows[i], cols[j])])])]

NotWritten == [written |-> FALSE, header |-> <<>>, rows |-> <<>>]

\* bed_table[col] = values: the column is appended, or replaced when it exists
SetCol(tbl, col, values) ==
    IF IndexOf(tbl.header, col) = 0
    THEN [header |-> Append(tbl.header, col),
          rows |-> Tuple([i \in 1..Len(tbl.rows) |-> Append(tbl.rows[i], values[i])])]
    ELSE [header |-> tbl.header,
          rows |-> Tuple([i \in 1..Len(tbl.rows) |->
                       [tbl.rows[i] EXCEPT ![IndexOf(tbl.header, col)] = values[i]]])]

\* round(np.mean(values), 5) of scores in units of 1e-6
MeanRound5(values) == 10 * RoundHalfEven(Sum(values), 10 * Len(values))

\* lines 196-200: the info table of a motif, all zeros
ZeroInfo ==
    [total_tfbs |-> 0,
     mean_score |-> [c \in Conds |-> 0],
     bound |-> [c \in Conds |-> 0],
     change |-> [c \in Comparisons |-> 0],
     pvalue |-> [c \in Comparisons |-> [kind |-> "exact", value |-> 0]]]

InitTask(exists, rows) ==
    [pc |-> "start",
     tmp |-> [exists |-> exists, rows |-> rows],
     header |-> <<>>,
     bed_table |-> [header |-> <<>>, rows |-> <<>>],
     info_table |-> ZeroInfo,
     all_bed |-> NotWritten,
     bound_bed |-> [c \in Conds |-> NotWritten],
     unbound_bed |-> [c \in Conds |-> NotWritten],
     overview_txt |-> NotWritten,
     overview_xlsx |-> NotWritten,
     observed |-> [c \in Comparisons |-> <<>>],
     log |-> <<>>,
     err |-> "none"]

\* what may go wrong in a run of the statistics stage: nothing, or for one motif the
\* temp file is missing, the excel file cannot be written, or the temp file cannot be
\* removed
Failures ==
    {[kind |-> "none", motif |-> "M1"]} \cup
    [kind : {"read", "excel", "remove"}, motif : Names]

PeakHeaderLists == { <<>>, <<"chr", "start", "end">> }

InitStats ==
    /\ ScanIdle
    /\ cmp = Idle
    /\ \E f \in {g \in TmpFiles : Len(g) >= 2} : \E fail \in Failures :
       \E phl \in PeakHeaderLists :
           stats = [phase |-> "run",
                    fail |-> fail,
                    peak_header_list |-> phl,
                    task |-> [m \in Names |->
                                 InitTask(~(fail.kind = "read" /\ fail.motif = m),
                                          IF m = "M1" THEN f ELSE TmpM2)]]

Fails(kind, m) == stats.fail.kind = kind /\ stats.fail.motif = m

SetTask(m, t) ==
    /\ stats' = [stats EXCEPT !.task[m] = t]
    /\ UNCHANGED <<regions, chunk, unreadable, pc, ri, si, rng, background_signal,
                   all_TFBS, qs, log, crash, trace, removed, cmp>>

\* lines 235-241: the table with the <condition>_bound columns, in the order of
\* cond_names
RECURSIVE WithBound(_, _)
WithBound(tbl, i) ==
    IF i > Len(cond_names) THEN tbl
    ELSE LET condition == cond_names[i]
             threshold == args.thresholds[condition]
             flags == Tuple([r \in 1..Len(tbl.rows) |->
                          IF IsBound(Col(tbl.header, tbl.rows[r], condition \o "_score"),
                                     threshold)
                          THEN 1 ELSE 0])
         IN  The({ WithBound(tbl1, i + 1) :
                   tbl1 \in {SetCol(tbl, condition \o "_bound", flags)} })

\* lines 244-255: the bound or unbound file of a condition
SplitBed(tbl, header, condition, chosen_bool) ==
    LET no_cond == Len(cond_names)
        subset == SelectSeq(tbl.rows,
                      LAMBDA row : Col(tbl.header, row, condition \o "_bound") = chosen_bool)
    IN  The({ to_csv(tbl.header, sorted,
                     SubSeq(header, 1, Len(header) - no_cond - 1)
                         \o <<condition \o "_score">>) :
              sorted \in {sort_values(subset,
                              Tuple([i \in 1..Len(subset) |->
                                  <<0 - Col(tbl.header, subset[i], condition \o "_score"),
                                    0>>]))} })

\* lines 186-255: read the temp file, sort, write the _all file, split into bound and
\* unbound per condition
ReadTable(m) ==
    /\ stats.phase = "run"
    /\ stats.task[m].pc = "start"
    /\ LET t == stats.task[m]
       IN  IF ~t.tmp.exists
           THEN \* line 203: np.genfromtxt raises, nothing catches it
                SetTask(m, [t EXCEPT !.pc = "raised", !.err = "OSError"])
           ELSE \E header \in {Header(Len(t.tmp.rows[1]), stats.peak_header_list)} :
                \E sorted \in {sort_values(t.tmp.rows,
                                   Tuple([i \in 1..Len(t.tmp.rows) |->
                                       <<Col(header, t.tmp.rows[i], "TFBS_start"),
                                         Col(header, t.tmp.rows[i], "TFBS_end")>>]))} :
                \E rounded \in {Tuple([i \in 1..Len(sorted) |->
                                    Tuple([j \in 1..Len(header) |->
                                        IF j > Len(header) - Len(cond_names)
                                        THEN Round5(sorted[i][j]) ELSE sorted[i][j]])])} :
                \E tbl \in {WithBound([header |-> header, rows |-> rounded], 1)} :
                    LET no_rows == Len(t.tmp.rows)
                        info == [t.info_table EXCEPT
                                    !.total_tfbs = no_rows,
                                    !.mean_score = [c \in Conds |->
                                        MeanRound5(Tuple([i \in 1..no_rows |->
                                            Col(header, rounded[i], c \o "_score")]))],
                                    !.bound = [c \in Conds |->
                                        Sum(Tuple([i \in 1..no_rows |->
                                            Col(tbl.header, tbl.rows[i], c \o "_bound")]))]]
                    IN  SetTask(m, [t EXCEPT
                            !.pc = "compare",
                            !.header = header,
                            !.bed_table = tbl,
                            !.info_table = info,
                            !.all_bed = to_csv(header, rounded,
                                            SelectSeq(header, LAMBDA col : col # "GC")),
                            !.bound_bed = [c \in Conds |-> SplitBed(tbl, header, c, 1)],
                            !.unbound_bed = [c \in Conds |-> SplitBed(tbl, header, c, 0)]])

\* line 274: the peak_id of a row
PeakId(header, row) ==
    <<Col(header, row, "peak_chr"), Col(header, row, "peak_start"),
      Col(header, row, "peak_end")>>

\* line 276: the mean log2fc of the rows of every peak_id
GroupMeans(tbl, subset, groups, col) ==
    LET members(id) == SelectSeq(subset, LAMBDA row : PeakId(tbl.header, row) = id)
        mean(rows) == RoundHalfEven(
                          Sum(Tuple([i \in 1..Len(rows) |-> Col(tbl.header, rows[i], col)])),
                          Len(rows))
    IN  Tuple([i \in 1..Len(groups) |-> The({mean(rows) : rows \in {members(groups[i])}})])

\* lines 272-276: the observed log2fcs of a comparison: of the rows where one of the
\* two scores is above zero, the mean log2fc of every peak_id, in the order of the ids
ObservedLog2fcs(tbl, cond1, cond2) ==
    LET base == cond1 \o "_" \o cond2
        included(row) == \/ Col(tbl.header, row, cond1 \o "_score") > 0
                         \/ Col(tbl.header, row, cond2 \o "_score") > 0
        peak_ids(subset) == Tuple([i \in 1..Len(subset) |-> PeakId(tbl.header, subset[i])])
        unique(ids) ==
            LET first == SelectSeq(Tuple([i \in 1..Len(ids) |-> i]),
                                   LAMBDA i : \A j \in 1..(i - 1) : ids[j] # ids[i])
            IN  Tuple([i \in 1..Len(first) |-> ids[first[i]]])
    IN  The({ The({ The({ The({ GroupMeans(tbl, subset, groups, base \o "_log2fc") :
            groups \in {sort_values(keys, Tuple([i \in 1..Len(keys) |->
                                                 <<keys[i][2], keys[i][3]>>]))} }) :
            keys \in {unique(ids)} }) :
            ids \in {peak_ids(subset)} }) :
            subset \in {SelectSeq(tbl.rows, included)} })

\* line 268-269: the log2fc of every row of the table
Log2fcs(tbl, cond1, cond2) ==
    Tuple([r \in 1..Len(tbl.rows) |->
              Log2Ratio(Col(tbl.header, tbl.rows[r], cond1 \o "_score") + args.pseudo,
                        Col(tbl.header, tbl.rows[r], cond2 \o "_score") + args.pseudo)])

\* lines 264-298: one comparison
CompareStep(t, i) ==
    LET cond1 == comparisons[i][1]
        cond2 == comparisons[i][2]
        base == cond1 \o "_" \o cond2
    IN  The({ The({ The({ [t EXCEPT
                              !.bed_table = tbl1,
                              !.observed[comparisons[i]] = observed_log2fcs,
                              !.info_table.change[comparisons[i]] = res.change,
                              !.info_table.pvalue[comparisons[i]] = res.pvalue] :
            res \in {CompareToBackground(Len(observed_log2fcs),
                                         norm_fit(observed_log2fcs),
                                         log2fc_params[comparisons[i]])} }) :
            observed_log2fcs \in {ObservedLog2fcs(tbl1, cond1, cond2)} }) :
            tbl1 \in {SetCol(t.bed_table, base \o "_log2fc",
                             Log2fcs(t.bed_table, cond1, cond2))} })

\* lines 262-298: the comparisons from the i-th on (the plot of lines 300-329 leaves no
\* trace in the table)
RECURSIVE CompareFrom(_, _)
CompareFrom(t, i) ==
    IF i > Len(comparisons) THEN t
    ELSE The({ CompareFrom(t1, i + 1) : t1 \in {CompareStep(t, i)} })

\* lines 258-331: the comparisons of the motif to the background
CompareAll(m) ==
    /\ stats.phase = "run"
    /\ stats.task[m].pc = "compare"
    /\ LET t == stats.task[m]
           named(col) == IndexOf(t.bed_table.header, col) # 0
       IN  IF comparisons # <<>>
              /\ ~(named("peak_chr") /\ named("peak_start") /\ named("peak_end"))
           THEN \* line 274: subset["peak_chr"], KeyError
                SetTask(m, [t EXCEPT
                    !.pc = "raised", !.err = "KeyError",
                    !.bed_table = SetCol(t.bed_table,
                        comparisons[1][1] \o "_" \o comparisons[1][2] \o "_log2fc",
                        Log2fcs(t.bed_table, comparisons[1][1], comparisons[1][2]))])
           ELSE SetTask(m, [CompareFrom(t, 1) EXCEPT !.pc = "overview"])

\* lines 334-352: write the overview as text and as excel file
WriteOverview(m) ==
    /\ stats.phase = "run"
    /\ stats.task[m].pc = "overview"
    /\ LET t == stats.task[m]
           chosen_columns == SelectSeq(t.bed_table.header, LAMBDA col : col # "GC")
           overview == to_csv(t.bed_table.header, t.bed_table.rows, chosen_columns)
       IN  IF Fails("excel", m)
           THEN \* lines 350-352: print, then sys.exit()
                SetTask(m, [t EXCEPT !.pc = "exited", !.err = "SystemExit",
                                     !.overview_txt = overview])
           ELSE SetTask(m, [t EXCEPT !.pc = "remove",
                                     !.overview_txt = overview,
                                     !.overview_xlsx = overview])

\* lines 354-360: remove the temp file and return the info table
RemoveTmp(m) ==
    /\ stats.phase = "run"
    /\ stats.task[m].pc = "remove"
    /\ LET t == stats.task[m]
       IN  IF Fails("remove", m)
           THEN SetTask(m, [t EXCEPT !.pc = "returned",
                                     !.log = Append(t.log, "Could not remove temporary file")])
           ELSE SetTask(m, [t EXCEPT !.pc = "returned", !.tmp.exists = FALSE])

NextStats ==
    \E m \in Names : ReadTable(m) \/ CompareAll(m) \/ WriteOverview(m) \/ RemoveTmp(m)

SpecStats == InitStats /\ [][NextStats]_vars

(* SpecCmp: lines 278-298 for one comparison, on every fit and sample size *)

MaxTicks == 3

SampleSizes == {0, 1, 2, SampleCap - 1, SampleCap, SampleCap + 1, 2 * SampleCap}

\* the fits a sample of n observed log2fcs can have
ObsFits(n) ==
    IF n = 0 THEN {NanParams}
    ELSE {[mean |-> m, std |-> sd] :
             m \in (0 - MaxTicks)..MaxTicks, sd \in 0..(IF n = 1 THEN 0 ELSE MaxTicks)}

InitCmp ==
    /\ ScanIdle
    /\ stats = Idle
    /\ \E n \in SampleSizes : \E obs \in ObsFits(n) :
       \E bm \in (0 - MaxTicks)..MaxTicks : \E bs \in 0..MaxTicks :
           cmp = [phase |-> "in", n |-> n, obs |-> obs,
                  bg |-> [mean |-> bm, std |-> bs]]

Compare ==
    /\ cmp.phase = "in"
    /\ LET res == CompareToBackground(cmp.n, cmp.obs, cmp.bg)
       IN  cmp' = [phase |-> "out", n |-> cmp.n, obs |-> cmp.obs, bg |-> cmp.bg,
                   change |-> res.change, pvalue |-> res.pvalue]
    /\ UNCHANGED <<regions, chunk, unreadable, pc, ri, si, rng, background_signal,
                   all_TFBS, qs, log, crash, trace, removed, stats>>

NextCmp == Compare

SpecCmp == InitCmp /\ [][NextCmp]_vars

-----------------------------------------------------------------------------
(* Claims about scan_and_score, checked under Spec *)

\* the sites the scanner returned to worker w, by the regions it has processed
Found(w) == UNION {trace[w][i].found : i \in 1..Len(trace[w])}
MotifOf(id) == Sites[id[2]].name
Count(s, id) == Cardinality({i \in 1..Len(s) : s[i].id = id})
InQueue(n, id) ==
    Cardinality(UNION {{<<i, j>> : j \in {k \in 1..Len(qs[n][i].bed) :
                                            qs[n][i].bed[k].id = id}}
                       : i \in 1..Len(qs[n])})
\* the sites worker w has put on the queues
Emitted(w) ==
    UNION {SeqToSet(qs[n][i].bed) : <<n, i>> \in
              {<<n, i>> \in Names \X (1..Cardinality(Workers)) :
                  i <= Len(qs[n]) /\ qs[n][i].from = w}}
\* y wins against x in resolve_overlaps: higher score, or the earlier one on a tie
Beats(y, x) ==
    /\ y.name = x.name /\ y.id # x.id /\ Overlaps(y, x)
    /\ \/ y.score > x.score
       \/ y.score = x.score /\ (y.id[1] < x.id[1] \/ (y.id[1] = x.id[1] /\ y.id[2] < x.id[2]))

C2_ReadErrorSkipped ==
    \A w \in Workers : \A i \in 1..Len(log[w]) :
        ~(pc[w] = "crashed" /\ crash[w].reg = log[w][i].reg /\ crash[w].err = "KeyError")

\* C3: trimming the padding restores the region: for every region processed, the
\* sequence passed to the scanner is that of [start, end), the trimmed GC array is
\* end - start long and starts at the region's start; and no sampled position indexes
\* the GC array out of bounds (IndexError).
C3_TrimRestoresRegion ==
    \A w \in Workers :
        /\ crash[w].err # "IndexError"
        /\ \A i \in 1..Len(trace[w]) :
              LET t == trace[w][i]
                  region == regions[t.reg]
              IN  /\ t.seq = [start |-> region.start, end |-> region.end]
                  /\ t.gc_len = region.end - region.start
                  /\ t.gc_base = region.start

\* C5: a region shorter than the sampling window, down to length 0, does not end the
\* worker in the sampling (ValueError), and contributes no sampled position.
C5_ShortRegionNoSample ==
    \A w \in Workers :
        /\ crash[w].err # "ValueError"
        /\ \A i \in 1..Len(trace[w]) :
              get_length(regions[trace[w][i].reg]) < rand_window
                  => trace[w][i].rand_positions = <<>>

C9_SamplingByLength ==
    \A w1, w2 \in Workers : \A i \in 1..Len(trace[w1]) : \A j \in 1..Len(trace[w2]) :
        get_length(regions[trace[w1][i].reg]) = get_length(regions[trace[w2][j].reg])
            => trace[w1][i].rand_positions = trace[w2][j].rand_positions

\* C9 witness: one worker sampled two different regions of the same length, one
\* after the other.
C9_Witness ==
    \E w \in Workers :
        /\ Len(trace[w]) = 2
        /\ trace[w][1].reg # trace[w][2].reg
        /\ get_length(regions[trace[w][1].reg]) = get_length(regions[trace[w][2].reg])
        /\ trace[w][1].rand_positions # <<>>

\* the positions a worker sampled, in the order of the regions it processed
RECURSIVE SampledBy(_)
SampledBy(tr) ==
    IF tr = <<>> THEN <<>>
    ELSE LET last == tr[Len(tr)]
         IN  SampledBy(SubSeq(tr, 1, Len(tr) - 1)) \o
             Tuple([j \in 1..Len(last.rand_positions) |->
                       [reg |-> last.reg, pos |-> last.rand_positions[j]]])

\* the GC value the worker reads at a sampled position of a region
GcAt(region, pos) ==
    LET ext == ExtendedRegion(region)
        L == ext.end - ext.start
    IN  fast_rolling_math(ext.start, L, SliceLo(L) + pos)

\* C13: the background sample stays parallel: after every region a worker has
\* processed, and in what it returns, the GC list and the signal list of every
\* condition are as long as the list of sampled positions, and their k-th values are
\* the GC value and the signal value at the k-th sampled position of its region.
C13_BackgroundParallel ==
    \A w \in Workers : crash[w] = NoCrash =>
        LET smp == SampledBy(trace[w])
            bg == background_signal[w]
        IN  /\ Len(bg.gc) = Len(smp)
            /\ \A k \in 1..Len(bg.gc) :
                   k <= Len(smp) => bg.gc[k] = GcAt(regions[smp[k].reg], smp[k].pos)
            /\ \A c \in Conds :
                   /\ Len(bg.signal[c]) = Len(bg.gc)
                   /\ \A k \in 1..Len(bg.signal[c]) :
                          k <= Len(smp) =>
                              bg.signal[c][k] =
                                  FootprintAt(c, regions[smp[k].reg], smp[k].pos)

-----------------------------------------------------------------------------
(* Claims about process_tfbs, checked under SpecStats *)

\* the motifs whose table process_tfbs has read, counted and written
TableRead(m) == stats.phase = "run" /\ stats.task[m].all_bed.written

\* two lines of a table hold overlapping sites
RowsOverlap(r1, r2) == r1[1] = r2[1] /\ r1[2] < r2[3] /\ r2[2] < r1[3]

\* the number of rows of a table equal to row
Copies(rows, row) == Cardinality({i \in 1..Len(rows) : rows[i] = row})

\* the line of a row in the bound and unbound files of a condition
BedLine(t, row, c) ==
    SubSeq(row, 1, Len(t.header) - Len(cond_names) - 1)
        \o <<Col(t.bed_table.header, row, c \o "_score")>>

\* C4: the statistics stage resolves overlaps over the whole stream of the motif: no
\* two of the rows it counts as total_tfbs and writes to the _all file overlap.
C4_NoOverlapAfterStatistics ==
    \A m \in Names : TableRead(m) =>
        LET t == stats.task[m]
        IN  /\ t.info_table.total_tfbs = Len(t.all_bed.rows)
            /\ \A i, j \in 1..Len(t.all_bed.rows) :
                   i # j => ~RowsOverlap(t.all_bed.rows[i], t.all_bed.rows[j])

\* C6: a failure of one motif in the statistics stage is handled inside process_tfbs:
\* no task ends by an exception that leaves process_tfbs, none ends its worker process
\* by sys.exit().
C6_FailureContained ==
    \A m \in Names : stats.phase = "run" =>
        /\ stats.task[m].pc \notin {"raised", "exited"}
        /\ stats.task[m].err = "none"

\* C8: for every condition, a row is flagged bound exactly when its score is strictly
\* above the threshold of the condition; the bound count of the info table is the
\* number of such rows; the bound file holds the rows above the threshold, the unbound
\* file the others, every row of the table in exactly one of the two, so that the
\* two files together have total_tfbs lines.
C8_BoundIffAboveThreshold ==
    \A m \in Names : TableRead(m) =>
        LET t == stats.task[m]
            tbl == t.bed_table
            score(row, c) == Col(tbl.header, row, c \o "_score")
            above(c) == {i \in 1..Len(tbl.rows) : score(tbl.rows[i], c) > args.thresholds[c]}
            last(line) == line[Len(line)]
        IN  \A c \in Conds :
               /\ \A i \in 1..Len(tbl.rows) :
                      Col(tbl.header, tbl.rows[i], c \o "_bound") = (IF i \in above(c) THEN 1 ELSE 0)
               /\ t.info_table.bound[c] = Cardinality(above(c))
               /\ t.bound_bed[c].written /\ t.unbound_bed[c].written
               /\ \A i \in 1..Len(t.bound_bed[c].rows) :
                      last(t.bound_bed[c].rows[i]) > args.thresholds[c]
               /\ \A i \in 1..Len(t.unbound_bed[c].rows) :
                      last(t.unbound_bed[c].rows[i]) <= args.thresholds[c]
               /\ \A i \in 1..Len(tbl.rows) :
                      LET line == BedLine(t, tbl.rows[i], c)
                      IN  Copies(t.bound_bed[c].rows, line) + Copies(t.unbound_bed[c].rows, line)
                              = Cardinality({j \in 1..Len(tbl.rows) :
                                                BedLine(t, tbl.rows[j], c) = line})
               /\ Len(t.bound_bed[c].rows) = t.info_table.bound[c]
               /\ Len(t.bound_bed[c].rows) + Len(t.unbound_bed[c].rows)
                      = t.info_table.total_tfbs
               /\ t.info_table.total_tfbs = Len(t.tmp.rows)

\* C8 witness: a table was split in which, for one condition, one row scores exactly
\* the threshold and is in the unbound file, and another row is in the bound file.
C8_Witness ==
    \E m \in Names : \E c \in Conds :
        /\ TableRead(m)
        /\ stats.task[m].bound_bed[c].rows # <<>>
        /\ \E i \in 1..Len(stats.task[m].unbound_bed[c].rows) :
               LET line == stats.task[m].unbound_bed[c].rows[i]
               IN  line[Len(line)] = args.thresholds[c]

\* every output file of the motif has been written
OutputsWritten(t) ==
    /\ t.all_bed.written
    /\ \A c \in Conds : t.bound_bed[c].written /\ t.unbound_bed[c].written
    /\ t.overview_txt.written /\ t.overview_xlsx.written

\* C11: the temp file is deleted once, and only once, the task has completed: a task
\* that has returned its row has no temp file left; a temp file that is gone was
\* removed after every output was written; a task that failed has left the temp file
\* it read in place.
C11_TmpRemovedOnReturn ==
    \A m \in Names : stats.phase = "run" =>
        LET t == stats.task[m]
        IN  /\ t.pc = "returned" => ~t.tmp.exists
            /\ (~t.tmp.exists /\ ~Fails("read", m)) => OutputsWritten(t)
            /\ (t.pc \in {"raised", "exited"} /\ ~Fails("read", m)) => t.tmp.exists

\* the originating peak of a row: the columns after the six of the site
PeakOf(row) == <<row[7], row[8], row[9]>>

\* the rows of a table that count for the comparison c, and those of the peak p
IncludedRows(tbl, c) ==
    SelectSeq(tbl.rows, LAMBDA row : \/ Col(tbl.header, row, c[1] \o "_score") > 0
                                     \/ Col(tbl.header, row, c[2] \o "_score") > 0)

\* the mean log2fc of the included rows of peak p
PeakMean(tbl, c, p) ==
    LET rows == SelectSeq(IncludedRows(tbl, c), LAMBDA row : PeakOf(row) = p)
    IN  RoundHalfEven(
            Sum(Tuple([i \in 1..Len(rows) |->
                          Col(tbl.header, rows[i], c[1] \o "_" \o c[2] \o "_log2fc")])),
            Len(rows))

\* C12: with or without a peak header list, no task fails in grouping by peak
\* (KeyError), and for every comparison of a task past its comparisons the fitted
\* sample holds one value per distinct originating peak of the included rows, the
\* mean log2fc of the included rows of that peak; rows with both scores at or below
\* zero contribute to no value.
C12_OneValuePerPeak ==
    \A m \in Names : stats.phase = "run" =>
        LET t == stats.task[m]
        IN  /\ t.err # "KeyError"
            /\ t.pc \in {"overview", "remove", "returned", "exited"} =>
                   \A c \in Comparisons :
                       LET peaks == {PeakOf(IncludedRows(t.bed_table, c)[i]) :
                                        i \in 1..Len(IncludedRows(t.bed_table, c))}
                       IN  /\ Len(t.observed[c]) = Cardinality(peaks)
                           /\ \A p \in peaks :
                                  Copies(t.observed[c], PeakMean(t.bed_table, c, p))
                                      = Cardinality({q \in peaks :
                                            PeakMean(t.bed_table, c, q)
                                                = PeakMean(t.bed_table, c, p)})

-----------------------------------------------------------------------------
(* Claims about the comparison to the background, checked under SpecCmp *)

\* the p-value of a comparison comes from the t-test on the two fits, with at most
\* 50,000 as the size of either group
FromTTest(c) ==
    /\ c.pvalue.kind = "ttest_ind_from_stats"
    /\ c.pvalue.mean1 = c.obs.mean /\ c.pvalue.std1 = c.obs.std
    /\ c.pvalue.mean2 = c.bg.mean /\ c.pvalue.std2 = c.bg.std
    /\ c.pvalue.nobs1 <= 50000 /\ c.pvalue.nobs2 <= 50000
    /\ c.n <= 50000 => c.pvalue.nobs1 = c.n /\ c.pvalue.nobs2 = c.n

Degenerate(c) == c.obs # NanParams /\ c.obs.mean = c.bg.mean

\* twice the difference of the means, and twice the mean of the standard deviations
Diff2(c) == 2 * (c.obs.mean - c.bg.mean)
Std2(c) == c.obs.std + c.bg.std

\* the change where the quotient is not a number or not finite
NotFinite(c) ==
    IF c.obs = NanParams THEN c.change = NanParams.mean
    ELSE c.change = (IF c.obs.mean > c.bg.mean THEN PosInf ELSE NegInf)

\* C10 as stated: equal means give change 0 and p-value 1; otherwise the change is
\* (observed mean - background mean) / mean of the standard deviations, and the p-value
\* is the t-test's, with sample sizes of at most 50,000.
C10_ChangeIsQuotient ==
    cmp.phase = "out" =>
        IF Degenerate(cmp)
        THEN cmp.change = 0 /\ cmp.pvalue = [kind |-> "exact", value |-> 1]
        ELSE /\ FromTTest(cmp)
             /\ IF cmp.obs = NanParams \/ Std2(cmp) = 0 THEN NotFinite(cmp)
                ELSE cmp.change * Std2(cmp) = Diff2(cmp) * 100000

\* C10 amended: as C10, with the change being the quotient rounded to 5 decimals: it
\* is a multiple of 1e-5 no further than half of 1e-5 from the quotient.
C10_ChangeIsRoundedQuotient ==
    cmp.phase = "out" =>
        IF Degenerate(cmp)
        THEN cmp.change = 0 /\ cmp.pvalue = [kind |-> "exact", value |-> 1]
        ELSE /\ FromTTest(cmp)
             /\ IF cmp.obs = NanParams \/ Std2(cmp) = 0 THEN NotFinite(cmp)
                ELSE LET err == cmp.change * Std2(cmp) - Diff2(cmp) * 100000
                     IN  2 * err <= Std2(cmp) /\ 2 * err >= 0 - Std2(cmp)

\* C10 witness: a comparison of more than 50,000 observed values whose means differ
\* and whose quotient has more than 5 decimals.
C10_Witness ==
    /\ cmp.phase = "out" /\ cmp.n > 50000
    /\ cmp.obs.mean # cmp.bg.mean /\ Std2(cmp) > 0
    /\ cmp.change * Std2(cmp) # Diff2(cmp) * 100000

====
